---- MODULE Spec2Model ----
(***************************************************************************)
(* A model of downloadScans.py: the EAD parser and flattener, the          *)
(* paginated metadata client, the scan downloader and the orchestrator.    *)
(*                                                                         *)
(* Python values are modelled as tuples: a str is the tuple of its code    *)
(* points where its characters matter (the path of a C object), and a      *)
(* tagged tuple such as <<"inv", 1>> where only its identity matters.      *)
(***************************************************************************)
EXTENDS Integers, Sequences, FiniteSets, TLC

VARIABLES
    pc,               \* position of the interpreter
    \* ---- finding aid
    tree,             \* the XML document returned by getEAD
    c,                \* the C object returned by parse_ead (or the raised error)
    elements,         \* flatten_ead_tree(c)
    ordered,          \* sorted(elements, key=lambda x: x.path)
    calls,            \* downloadFile calls of the ead branch of __main__, as arguments
    eadCalls,         \* downloadFile calls of downloadScansFromEAD, as arguments
    idx,              \* position of the for loop over the sorted elements
    \* ---- command line
    mode,             \* "ead" or "file"
    CONCORDANCEFILE,  \* the --concordance option
    \* ---- downloadFile frame
    path, collectionNumber, inventoryNumber, folder,
    concordance,      \* the dict built while downloading
    nscans,           \* what getScanCount returned
    scans,            \* what getScans returned
    n,                \* position of the for loop over scans
    \* ---- getScans frame
    limit,            \* the limit parameter
    arguments,        \* the query arguments (start and limit)
    i,                \* position of the for loop over the pages
    gsScans,          \* the local list scans of getScans
    \* ---- downloadScan frame
    uuidScan, scanName,
    \* ---- environment
    server,           \* the inventory the metadata service answers with
    fs,               \* regular files: path -> contents
    dirs,             \* directories
    netlog,           \* requests issued and delays taken, in order
    printed,          \* lines printed by the current downloadFile call
    fsAtCall,         \* fs when the current downloadFile call began
    dirsAtCall,       \* dirs when the current downloadFile call began
    logAtCall         \* Len(netlog) when the current downloadFile call began

vars == << pc, tree, c, elements, ordered, calls, eadCalls, idx, mode,
           CONCORDANCEFILE, path, collectionNumber, inventoryNumber, folder,
           concordance, nscans, scans, n, limit, arguments, i, gsScans,
           uuidScan, scanName, server, fs, dirs, netlog, printed, fsAtCall,
           dirsAtCall, logAtCall >>

eadVars == << tree, c, elements, ordered, calls, eadCalls >>
mainVars == << idx, mode, CONCORDANCEFILE >>
fileVars == << path, collectionNumber, inventoryNumber, folder, concordance,
               nscans, scans, n >>
scansVars == << limit, arguments, i, gsScans >>
scanVars == << uuidScan, scanName >>
envVars == << server, fs, dirs, netlog >>
callVars == << printed, fsAtCall, dirsAtCall, logAtCall >>

----------------------------------------------------------------------------
(* Bounds of the model *)

\* c elements of a generated finding aid
MaxNodes == 5
\* siblings of the wide finding aids
MaxWide == 11
\* scans of an inventory in a whole run
MaxScans == 2
\* declared scan count of a direct getScans call
MaxDeclared == 250

----------------------------------------------------------------------------
(* Python values *)

None == <<"None">>
Unset == <<"unset">>
AttributeError == [raised |-> "AttributeError"]
Raised(v) == "raised" \in DOMAIN v

\* code point of "." and of "0"
Dot == 46
Zero == 48

\* str(k) of an int k >= 0: its decimal digits
RECURSIVE str(_)
str(k) == IF k < 10 THEN << Zero + k >>
          ELSE str(k \div 10) \o << Zero + (k % 10) >>

\* a < b on str: lexicographic on code points, a proper prefix first
RECURSIVE StrLess(_, _)
StrLess(a, b) ==
    IF b = <<>> THEN FALSE
    ELSE IF a = <<>> THEN TRUE
    ELSE IF Head(a) # Head(b) THEN Head(a) < Head(b)
    ELSE StrLess(Tail(a), Tail(b))

\* list.insert keeping equal keys in their order: x goes behind every
\* element whose path is not greater than x.path
RECURSIVE InsertByPath(_, _)
InsertByPath(x, s) ==
    IF s = <<>> THEN << x >>
    ELSE IF StrLess(x.path, s[Len(s)].path)
         THEN Append(InsertByPath(x, SubSeq(s, 1, Len(s) - 1)), s[Len(s)])
         ELSE Append(s, x)

\* sorted(s, key=lambda x: x.path): a stable sort on the path strings
RECURSIVE sortedByPath(_)
sortedByPath(s) ==
    IF s = <<>> THEN <<>>
    ELSE InsertByPath(s[Len(s)], sortedByPath(SubSeq(s, 1, Len(s) - 1)))

----------------------------------------------------------------------------
(* The EAD parser and the flattener *)

\* el.find(f).text raises when find returns None, which it does for an element
\* that is not there; the text of an element without text is None
FindRaises(field) == ~field.found

RECURSIVE parse_ead_element(_, _)
parse_ead_element(el, level) ==
    LET id == el.unitid.text
        title == el.unittitle.text
        parts == [ k \in 1..Len(el.cs) |->
                     parse_ead_element(el.cs[k], level \o << Dot >> \o str(k)) ]
    IN  IF FindRaises(el.unitid) \/ FindRaises(el.unittitle) THEN AttributeError
        ELSE IF \E k \in 1..Len(el.cs) : Raised(parts[k]) THEN AttributeError
        ELSE [ id |-> id, title |-> title, path |-> level, hasPart |-> parts ]

parse_ead(t) ==
    LET id == t.eadid.text
        title == t.titleproper.text
        parts == [ k \in 1..Len(t.cs) |-> parse_ead_element(t.cs[k], str(k)) ]
    IN  IF FindRaises(t.eadid) \/ FindRaises(t.titleproper) THEN AttributeError
        ELSE IF \E k \in 1..Len(t.cs) : Raised(parts[k]) THEN AttributeError
        ELSE [ id |-> id, title |-> title, path |-> str(0), hasPart |-> parts ]

\* a faulty variant: descendants are collected behind all the siblings
RECURSIVE flatten_siblings_first(_)
flatten_siblings_first(node) ==
    LET RECURSIVE below(_)
        below(k) ==
            IF k > Len(node.hasPart) THEN <<>>
            ELSE (IF node.hasPart[k].hasPart # <<>>
                  THEN flatten_siblings_first(node.hasPart[k]) ELSE <<>>)
                 \o below(k + 1)
    IN  node.hasPart \o below(1)

RECURSIVE flatten_ead_tree(_)
flatten_ead_tree(node) ==
    LET RECURSIVE loop(_, _)
        loop(k, stack) ==
            IF k > Len(node.hasPart) THEN stack
            ELSE LET part == node.hasPart[k]
                     s1 == Append(stack, part)
                 IN  loop(k + 1, IF part.hasPart # <<>>
                                 THEN s1 \o flatten_ead_tree(part)
                                 ELSE s1)
    IN  loop(1, <<>>)

\* the arguments of one downloadFile call
Call(p, coll, inv) == [ path |-> p, collectionNumber |-> coll, inventoryNumber |-> inv ]

\* concatenation of a list of lists
RECURSIVE Concat(_)
Concat(ss) == IF ss = <<>> THEN <<>> ELSE Head(ss) \o Concat(Tail(ss))

\* the for loop of the ead branch of __main__: one call per element without parts
MainEadCalls(node, elems) ==
    LET files == SelectSeq(elems, LAMBDA e : e.hasPart = <<>>)
    IN  [ k \in 1..Len(files) |-> Call(files[k].path, node.id, files[k].id) ]

\* downloadScansFromEAD: its own flattening, then one call per child without parts
DownloadScansFromEADCalls(node) ==
    LET children == Concat([ k \in 1..Len(node.hasPart) |->
                               IF node.hasPart[k].hasPart # <<>>
                               THEN node.hasPart[k].hasPart
                               ELSE << node.hasPart[k] >> ])
        files == SelectSeq(children, LAMBDA e : e.hasPart = <<>>)
    IN  [ k \in 1..Len(files) |-> Call(files[k].path, node.id, files[k].id) ]

----------------------------------------------------------------------------
(* Finding aids: the XML documents getEAD can return *)

Text(t) == [ found |-> TRUE, text |-> t ]
\* an element that is there and holds no text, such as <unittitle/>
Empty == [ found |-> TRUE, text |-> None ]
\* an element that is not there
Absent == [ found |-> FALSE ]

\* the forests of exactly m c elements, as shapes
RECURSIVE Forests(_)
Forests(m) ==
    IF m = 0 THEN { <<>> }
    ELSE UNION { { << [ cs |-> sub ] >> \o rest :
                     sub \in Forests(k - 1), rest \in Forests(m - k) } :
                 k \in 1..m }

\* every c element gets a did with a unitid and a unittitle of its own
RECURSIVE Labelled(_, _)
Labelled(forest, prefix) ==
    [ k \in 1..Len(forest) |->
        [ unitid |-> Text(<<"inv">> \o prefix \o << k >>),
          unittitle |-> Text(<<"title">> \o prefix \o << k >>),
          cs |-> Labelled(forest[k].cs, prefix \o << k >>) ] ]

\* the places of the c elements of a forest, as index sequences
RECURSIVE Places(_)
Places(forest) ==
    UNION { { << k >> } \cup { << k >> \o p : p \in Places(forest[k].cs) } :
            k \in 1..Len(forest) }

\* the forest with one field of the element at place pos replaced
RECURSIVE WithField(_, _, _, _)
WithField(forest, pos, field, value) ==
    [ k \in 1..Len(forest) |->
        IF k # Head(pos) THEN forest[k]
        ELSE IF Len(pos) = 1
             THEN IF field = "unitid"
                  THEN [ forest[k] EXCEPT !.unitid = value ]
                  ELSE [ forest[k] EXCEPT !.unittitle = value ]
             ELSE [ forest[k] EXCEPT
                      !.cs = WithField(forest[k].cs, Tail(pos), field, value) ] ]

Document(forest) ==
    [ eadid |-> Text(<<"coll", 1>>), titleproper |-> Text(<<"title">>), cs |-> forest ]

GeneratedForests == UNION { { Labelled(f, <<>>) : f \in Forests(m) } : m \in 0..MaxNodes }

\* well-formed finding aids of at most MaxNodes c elements
SoundDocuments == { Document(f) : f \in GeneratedForests }

\* the same, with one identifier or title field missing or without text
DefectiveDocuments ==
    UNION { { Document(WithField(f, pos, field, value)) :
                pos \in Places(f), field \in { "unitid", "unittitle" },
                value \in { Empty, Absent } } : f \in GeneratedForests }
    \cup UNION { { [ Document(f) EXCEPT !.eadid = value ],
                   [ Document(f) EXCEPT !.titleproper = value ] } :
                 f \in GeneratedForests, value \in { Empty, Absent } }

\* a series of w files, and w files directly under the root
WideDocuments ==
    UNION { { Document(Labelled([ k \in 1..w |-> [ cs |-> <<>> ] ], <<>>)),
              Document(Labelled(<< [ cs |-> [ k \in 1..w |-> [ cs |-> <<>> ] ] ] >>, <<>>)) } :
            w \in 1..MaxWide }

TreeDocuments == SoundDocuments \cup DefectiveDocuments \cup WideDocuments

----------------------------------------------------------------------------
(* The parser, the flattener and the two worklists applied to a finding aid *)

IdleEad ==
    /\ tree = Unset /\ c = Unset /\ elements = <<>> /\ ordered = <<>>
    /\ calls = <<>> /\ eadCalls = <<>>

IdleFile ==
    /\ idx = 0
    /\ path = Unset /\ collectionNumber = Unset /\ inventoryNumber = Unset
    /\ folder = Unset /\ concordance = Unset /\ nscans = 0 /\ scans = <<>> /\ n = 0
    /\ limit = 0 /\ arguments = Unset /\ i = 0 /\ gsScans = <<>>
    /\ uuidScan = Unset /\ scanName = Unset
    /\ server = Unset /\ fs = << >> /\ dirs = {} /\ netlog = <<>>
    /\ printed = <<>> /\ fsAtCall = << >> /\ dirsAtCall = {} /\ logAtCall = 0

InitTree ==
    /\ IdleFile
    /\ mode = "lib" /\ CONCORDANCEFILE = FALSE
    /\ pc = "parse_ead"
    /\ tree \in TreeDocuments
    /\ c = Unset /\ elements = <<>> /\ ordered = <<>>
    /\ calls = <<>> /\ eadCalls = <<>>

\* c = parse_ead(tree); an exception nobody catches ends the run
ParseEad ==
    /\ pc = "parse_ead"
    /\ c' = parse_ead(tree)
    /\ pc' = IF Raised(c') THEN "raised" ELSE "flatten_ead_tree"
    /\ UNCHANGED << tree, elements, ordered, calls, eadCalls >>
    /\ UNCHANGED << mainVars, fileVars, scansVars, scanVars, envVars, callVars >>

\* elements = flatten_ead_tree(c)
FlattenEadTree ==
    /\ pc = "flatten_ead_tree"
    /\ elements' = flatten_ead_tree(c)
    /\ pc' = "sorted"
    /\ UNCHANGED << tree, c, ordered, calls, eadCalls >>
    /\ UNCHANGED << mainVars, fileVars, scansVars, scanVars, envVars, callVars >>

\* sorted(elements, key=lambda x: x.path), and with it the downloadFile calls
\* the for loop is going to make: one per element without parts, in that order
SortElements ==
    /\ pc = "sorted"
    /\ ordered' = sortedByPath(elements)
    /\ calls' = MainEadCalls(c, ordered')
    /\ idx' = 1
    /\ pc' = "forElement"
    /\ UNCHANGED << tree, c, elements, eadCalls >>
    /\ UNCHANGED << mode, CONCORDANCEFILE, fileVars, scansVars, scanVars, envVars, callVars >>

\* downloadScansFromEAD(c, folder, concordancefile), as the downloadFile calls it makes
DownloadScansFromEAD ==
    /\ pc = "forElement" /\ mode = "lib"
    /\ eadCalls' = DownloadScansFromEADCalls(c)
    /\ pc' = "exit"
    /\ UNCHANGED << tree, c, elements, ordered, calls >>
    /\ UNCHANGED << mainVars, fileVars, scansVars, scanVars, envVars, callVars >>

NextTree == ParseEad \/ FlattenEadTree \/ SortElements \/ DownloadScansFromEAD

SpecTree == InitTree /\ [][NextTree]_vars

----------------------------------------------------------------------------
(* Document order, stated on places instead of by recursion on the lists *)

\* the places of the nodes below node
RECURSIVE Positions(_)
Positions(node) ==
    UNION { { << k >> } \cup { << k >> \o p : p \in Positions(node.hasPart[k]) } :
            k \in 1..Len(node.hasPart) }

RECURSIVE NodeAt(_, _)
NodeAt(node, pos) ==
    IF pos = <<>> THEN node ELSE NodeAt(node.hasPart[Head(pos)], Tail(pos))

\* p comes before q in the document: p is an ancestor of q, or p branches off
\* to an earlier sibling
RECURSIVE Before(_, _)
Before(p, q) ==
    IF q = <<>> THEN FALSE
    ELSE IF p = <<>> THEN TRUE
    ELSE IF Head(p) # Head(q) THEN Head(p) < Head(q)
    ELSE Before(Tail(p), Tail(q))

RECURSIVE InOrder(_)
InOrder(S) ==
    IF S = {} THEN <<>>
    ELSE LET first == CHOOSE p \in S : \A q \in S \ { p } : Before(p, q)
         IN  << first >> \o InOrder(S \ { first })

\* the nodes at the given places, in document order
DocumentOrder(node, S) == LET ps == InOrder(S) IN [ k \in 1..Len(ps) |-> NodeAt(node, ps[k]) ]

LeafPositions(node) == { p \in Positions(node) : NodeAt(node, p).hasPart = <<>> }

Flattened == pc \notin { "parse_ead", "raised", "flatten_ead_tree" }
Sorted == pc \notin { "parse_ead", "raised", "flatten_ead_tree", "sorted" }

\* C9: flatten_ead_tree(root) holds every node except the root exactly once,
\* each node followed by its descendants before its next sibling; the elements
\* without parts are exactly the leaves; a root of leaves gives its children.
C9_FlattenIsPreorder ==
    Flattened =>
        /\ elements = DocumentOrder(c, Positions(c))
        /\ SelectSeq(elements, LAMBDA e : e.hasPart = <<>>)
             = DocumentOrder(c, LeafPositions(c))
        /\ (\A k \in 1..Len(c.hasPart) : c.hasPart[k].hasPart = <<>>)
             => elements = c.hasPart

\* a tree of three levels with a series between two files has been flattened
C9_Witness ==
    /\ Flattened
    /\ Len(c.hasPart) >= 3
    /\ c.hasPart[1].hasPart = <<>>
    /\ c.hasPart[2].hasPart # <<>>
    /\ Len(elements) = 5

\* C2: sorting the flattened nodes by path gives document order, and no two
\* nodes share a path.
C2_SortRestoresDocumentOrder ==
    Sorted =>
        /\ ordered = DocumentOrder(c, Positions(c))
        /\ \A j, k \in 1..Len(elements) :
             elements[j].path = elements[k].path => j = k

\* a field that is missing: an element that is absent or holds no text
Missing(field) == IF field.found THEN field.text = None ELSE TRUE

RECURSIVE SomeFieldMissing(_)
SomeFieldMissing(forest) ==
    \E k \in 1..Len(forest) :
        \/ Missing(forest[k].unitid)
        \/ Missing(forest[k].unittitle)
        \/ SomeFieldMissing(forest[k].cs)

RECURSIVE HoldsNone(_)
HoldsNone(node) ==
    \/ node.id = None
    \/ node.title = None
    \/ \E k \in 1..Len(node.hasPart) : HoldsNone(node.hasPart[k])

\* C8: a finding aid with a missing identifier or title field makes parsing
\* fail, and no parsed tree holds a node whose id or title is None.
C8_MissingFieldFails ==
    pc # "parse_ead" =>
        /\ ( Missing(tree.eadid) \/ Missing(tree.titleproper)
             \/ SomeFieldMissing(tree.cs) ) => Raised(c)
        /\ ~Raised(c) => ~HoldsNone(c)

\* C10: downloadScansFromEAD calls downloadFile for exactly the leaves, once
\* each: the calls the ead branch of __main__ makes.
C10_SameInventories ==
    pc = "exit" =>
        /\ Len(eadCalls) = Len(calls)
        /\ { eadCalls[k] : k \in 1..Len(eadCalls) } = { calls[k] : k \in 1..Len(calls) }
        /\ { eadCalls[k].path : k \in 1..Len(eadCalls) }
             = { NodeAt(c, p).path : p \in LeafPositions(c) }

----------------------------------------------------------------------------
(* The metadata service and the metadata client *)

\* range(math.ceil(nscans / 100)): the 100 of the loop
PageSize == 100
\* limit: int = 100, the default of getScans
DefaultLimit == 100
\* "limit": 10 of the probe of getScanCount
ProbeLimit == 10
\* time.sleep(1)
Delay == 1

ScanRecord(k) == [ id |-> <<"uuid", k>>, name |-> <<"scan", k>> ]

\* an inventory of k scans that declares k scans
Inventory(k) == [ scancount |-> k, scans |-> [ j \in 1..k |-> ScanRecord(j) ] ]

\* the same, its last scan carrying the name of its first
Renamed(k) ==
    [ scancount |-> k,
      scans |-> [ j \in 1..k |-> IF j = k THEN [ id |-> <<"uuid", k>>, name |-> <<"scan", 1>> ]
                                 ELSE ScanRecord(j) ] ]

\* an inventory that declares k scans and returns none
Silent(k) == [ scancount |-> k, scans |-> <<>> ]

\* what the service may hold for the inventory a run asks for
Inventories ==
    { Inventory(k) : k \in 0..MaxScans }
    \cup { Renamed(k) : k \in 2..MaxScans }
    \cup { Silent(k) : k \in 1..MaxScans }

\* data["scans"]["scans"] of the answer to a request with the given start and limit
ServerPage(inv, start, lim) ==
    SubSeq(inv.scans, start + 1,
           IF start + lim < Len(inv.scans) THEN start + lim ELSE Len(inv.scans))

MetadataRequest(args) == [ type |-> "metadata", start |-> args.start, limit |-> args.limit ]
ImageRequest(uuid) == [ type |-> "image", uuid |-> uuid ]
Sleep == [ type |-> "sleep", secs |-> Delay ]

\* a faulty variant: one page more than the scans need
RangeStopPlusOne(ns) == ns \div PageSize + 1

\* math.ceil(nscans / 100)
RangeStop(ns) == (ns + PageSize - 1) \div PageSize

\* getScans up to its loop: the query arguments and the empty list
GetScans ==
    /\ pc = "getScans"
    /\ arguments' = [ start |-> 0, limit |-> limit ]
    /\ gsScans' = <<>>
    /\ i' = 0
    /\ pc' = "getScansLoop"
    /\ UNCHANGED << limit, eadVars, mainVars, fileVars, scanVars, envVars, callVars >>

\* one turn of the loop: the request, the next start, the delay, the scans
GetScansPage ==
    /\ pc = "getScansLoop"
    /\ i < RangeStop(nscans)
    /\ netlog' = netlog \o << MetadataRequest(arguments), Sleep >>
    /\ arguments' = [ arguments EXCEPT !.start = arguments.start + limit ]
    /\ gsScans' = gsScans \o ServerPage(server, arguments.start, arguments.limit)
    /\ i' = i + 1
    /\ UNCHANGED << pc, limit, server, fs, dirs >>
    /\ UNCHANGED << eadVars, mainVars, fileVars, scanVars, callVars >>

\* return scans
GetScansReturn ==
    /\ pc = "getScansLoop"
    /\ i >= RangeStop(nscans)
    /\ scans' = gsScans
    /\ pc' = IF mode = "lib" THEN "exit" ELSE "ifNotScans"
    /\ UNCHANGED << path, collectionNumber, inventoryNumber, folder, concordance, nscans, n >>
    /\ UNCHANGED << eadVars, mainVars, scansVars, scanVars, envVars, callVars >>

\* the page sizes of the direct calls: the probe's, the default, and others
PageLimits == { 1, ProbeLimit, 50, DefaultLimit, 150 }

\* getScans(path, nscans, collectionNumber, limit=limit) called on its own for
\* an inventory that holds the nscans scans it declares
InitGetScans ==
    /\ IdleEad
    /\ mode = "lib" /\ CONCORDANCEFILE = FALSE
    /\ pc = "getScans"
    /\ idx = 0
    /\ path = str(1) /\ collectionNumber = <<"coll", 1>> /\ inventoryNumber = Unset
    /\ folder = Unset /\ concordance = Unset /\ scans = <<>> /\ n = 0
    /\ nscans \in 0..MaxDeclared
    /\ limit \in PageLimits
    /\ server = Inventory(nscans)
    /\ arguments = Unset /\ i = 0 /\ gsScans = <<>>
    /\ uuidScan = Unset /\ scanName = Unset
    /\ fs = << >> /\ dirs = {} /\ netlog = <<>>
    /\ printed = <<>> /\ fsAtCall = << >> /\ dirsAtCall = {} /\ logAtCall = 0

NextGetScans == GetScans \/ GetScansPage \/ GetScansReturn

SpecGetScans == InitGetScans /\ [][NextGetScans]_vars

PageRequests == SelectSeq(netlog, LAMBDA e : e.type = "metadata")

\* C1: getScans issues exactly ceil(nscans / limit) page requests, with start
\* 0, limit, 2*limit, ..., whose ranges cover every index of [0, nscans).
C1_PagesCoverDeclaredCount ==
    pc = "exit" =>
        /\ Len(PageRequests) = (nscans + limit - 1) \div limit
        /\ \A k \in 1..Len(PageRequests) : PageRequests[k].start = (k - 1) * limit
        /\ \A j \in 0..(nscans - 1) :
             \E k \in 1..Len(PageRequests) :
                 /\ PageRequests[k].start <= j
                 /\ j < PageRequests[k].start + PageRequests[k].limit

----------------------------------------------------------------------------
(* The file system and the scan downloader *)

\* r.status_code == 200
StatusOK == 200
\* a status that is not 200: the else of the if on r.status_code
StatusNotFound == 404

\* os.path.join(folder, collectionNumber, inventoryNumber)
JoinFolder(root, coll, inv) == root \o << coll, inv >>
\* os.path.join(folder, scanName + ".jpg")
JpgPath(dir, name) == Append(dir, name \o << ".jpg" >>)
\* os.path.join(folder, "concordance.json")
ConcordancePath(dir) == Append(dir, << "concordance.json" >>)

\* os.path.exists(fp)
Exists(fp) == fp \in DOMAIN fs

\* the bytes the image service sends for a scan
Image(uuid) == << <<"jpg">>, uuid >>
\* what an interrupted write of an earlier run left behind
Partial == << <<"partial">> >>
\* a concordance of an earlier run
OldConcordance == << <<"old">> >>

\* a faulty variant: the new item goes first
DictSetFirst(d, key, value) == << << key, value >> >> \o d

\* concordance[name] = uuid on a dict kept as the list of its items: a key
\* that is there keeps its place and gets the value, a new key goes last
DictSet(d, key, value) ==
    IF \E j \in 1..Len(d) : d[j][1] = key
    THEN [ j \in 1..Len(d) |-> IF d[j][1] = key THEN << key, value >> ELSE d[j] ]
    ELSE Append(d, << key, value >>)

\* json.dump(concordance, jsonfile, indent=4), as the tokens of the object:
\* { key : value , key : value }
RECURSIVE JsonMembers(_)
JsonMembers(d) ==
    IF d = <<>> THEN <<>>
    ELSE << d[1][1], <<":">>, d[1][2] >>
         \o (IF Len(d) > 1 THEN << <<",">> >> ELSE <<>>)
         \o JsonMembers(Tail(d))

json_dump(d) == << <<"{">> >> \o JsonMembers(d) \o << <<"}">> >>

----------------------------------------------------------------------------
(* The orchestrator: __main__ and downloadFile *)

\* the <folder> argument
FOLDER == << <<"out">> >>
\* the arguments of the file command
COLLECTIONNUMBER == <<"coll", 1>>
INVENTORYNUMBER == <<"inv", 1>>
PATH == str(1) \o << Dot >> \o str(6)

File == [ cs |-> <<>> ]
Series(parts) == [ cs |-> parts ]

\* the finding aids of the whole runs: one file, two files, a series of one
\* file before a file, two files of one unitid, and a file whose unitid is
\* not there
MainDocuments ==
    { Document(Labelled(<< File >>, <<>>)),
      Document(Labelled(<< File, File >>, <<>>)),
      Document(Labelled(<< Series(<< File >>), File >>, <<>>)),
      Document(WithField(Labelled(<< File, File >>, <<>>), << 2 >>, "unitid",
                         Text(<<"inv", 1>>))),
      Document(WithField(Labelled(<< File >>, <<>>), << 1 >>, "unitid", Absent)) }

FirstFolder == JoinFolder(FOLDER, COLLECTIONNUMBER, INVENTORYNUMBER)

\* what is on disk before the run: nothing, or the folder of the first
\* inventory with a partial first scan, or with that and an old concordance
InitialDisks ==
    { [ fs |-> << >>, dirs |-> {} ],
      [ fs |-> (JpgPath(FirstFolder, <<"scan", 1>>) :> Partial),
        dirs |-> { FOLDER, FirstFolder } ],
      [ fs |-> (JpgPath(FirstFolder, <<"scan", 1>>) :> Partial)
                 @@ (ConcordancePath(FirstFolder) :> OldConcordance),
        dirs |-> { FOLDER, FirstFolder } ] }

Init ==
    /\ IdleEad
    /\ pc = "main"
    /\ mode \in { "ead", "file" }
    /\ CONCORDANCEFILE \in BOOLEAN
    /\ idx = 0
    /\ path = Unset /\ collectionNumber = Unset /\ inventoryNumber = Unset
    /\ folder = Unset /\ concordance = Unset /\ nscans = 0 /\ scans = <<>> /\ n = 0
    /\ limit = 0 /\ arguments = Unset /\ i = 0 /\ gsScans = <<>>
    /\ uuidScan = Unset /\ scanName = Unset
    /\ server = Unset
    /\ \E disk \in InitialDisks : fs = disk.fs /\ dirs = disk.dirs
    /\ netlog = <<>>
    /\ printed = <<>> /\ fsAtCall = << >> /\ dirsAtCall = {} /\ logAtCall = 0

\* the file command: os.makedirs(FOLDER) and the one downloadFile call
MainFile ==
    /\ pc = "main" /\ mode = "file"
    /\ dirs' = dirs \cup { FOLDER }
    /\ path' = PATH
    /\ collectionNumber' = COLLECTIONNUMBER
    /\ inventoryNumber' = INVENTORYNUMBER
    /\ pc' = "downloadFile"
    /\ UNCHANGED << folder, concordance, nscans, scans, n, server, fs, netlog >>
    /\ UNCHANGED << eadVars, mainVars, scansVars, scanVars, callVars >>

\* the ead command: os.makedirs(FOLDER) and tree = getEAD(EADURL)
GetEAD ==
    /\ pc = "main" /\ mode = "ead"
    /\ dirs' = dirs \cup { FOLDER }
    /\ tree' \in MainDocuments
    /\ pc' = "parse_ead"
    /\ UNCHANGED << c, elements, ordered, calls, eadCalls, server, fs, netlog >>
    /\ UNCHANGED << mainVars, fileVars, scansVars, scanVars, callVars >>

\* the next element without parts of the for loop: its downloadFile call
ForElement ==
    /\ pc = "forElement" /\ mode = "ead"
    /\ idx <= Len(calls)
    /\ path' = calls[idx].path
    /\ collectionNumber' = calls[idx].collectionNumber
    /\ inventoryNumber' = calls[idx].inventoryNumber
    /\ pc' = "downloadFile"
    /\ UNCHANGED << folder, concordance, nscans, scans, n >>
    /\ UNCHANGED << eadVars, mainVars, scansVars, scanVars, envVars, callVars >>

\* the for loop is through
ForElementEnd ==
    /\ pc = "forElement" /\ mode = "ead"
    /\ idx > Len(calls)
    /\ pc' = "exit"
    /\ UNCHANGED << eadVars, mainVars, fileVars, scansVars, scanVars, envVars, callVars >>

\* downloadFile up to its first request: the folder and the empty dict
DownloadFile ==
    /\ pc = "downloadFile"
    /\ folder' = JoinFolder(FOLDER, collectionNumber, inventoryNumber)
    /\ concordance' = IF CONCORDANCEFILE THEN <<>> ELSE Unset
    /\ printed' = <<>>
    /\ fsAtCall' = fs /\ dirsAtCall' = dirs /\ logAtCall' = Len(netlog)
    /\ pc' = "getScanCount"
    /\ UNCHANGED << path, collectionNumber, inventoryNumber, nscans, scans, n >>
    /\ UNCHANGED << eadVars, mainVars, scansVars, scanVars, envVars >>

\* nscans = getScanCount(path, collectionNumber): one request, no delay; then
\* the call getScans(path, nscans, collectionNumber) with the default limit
GetScanCount ==
    /\ pc = "getScanCount"
    /\ server' \in Inventories
    /\ netlog' = Append(netlog, MetadataRequest([ start |-> 0, limit |-> ProbeLimit ]))
    /\ nscans' = server'.scancount
    /\ limit' = DefaultLimit
    /\ pc' = "getScans"
    /\ UNCHANGED << path, collectionNumber, inventoryNumber, folder, concordance, scans, n >>
    /\ UNCHANGED << arguments, i, gsScans, fs, dirs >>
    /\ UNCHANGED << eadVars, mainVars, scanVars, callVars >>

NoScansLine(inv) == [ text |-> "No scans found for", inventoryNumber |-> inv ]

\* if not scans: print and return
NoScans ==
    /\ pc = "ifNotScans"
    /\ scans = <<>>
    /\ printed' = Append(printed, NoScansLine(inventoryNumber))
    /\ pc' = "return"
    /\ UNCHANGED << fsAtCall, dirsAtCall, logAtCall >>
    /\ UNCHANGED << eadVars, mainVars, fileVars, scansVars, scanVars, envVars >>

\* os.makedirs(folder, exist_ok=True) and the headline
MakeDirs ==
    /\ pc = "ifNotScans"
    /\ scans # <<>>
    /\ dirs' = dirs \cup { SubSeq(folder, 1, k) : k \in 1..Len(folder) }
    /\ printed' = Append(printed, [ text |-> "Downloading scans to", folder |-> folder ])
    /\ n' = 1
    /\ pc' = "forScan"
    /\ UNCHANGED << path, collectionNumber, inventoryNumber, folder, concordance, nscans, scans >>
    /\ UNCHANGED << server, fs, netlog, fsAtCall, dirsAtCall, logAtCall >>
    /\ UNCHANGED << eadVars, mainVars, scansVars, scanVars >>

\* the head of one turn of the loop over scans: the progress line and the
\* call downloadScan(uuid, name, folder)
ForScan ==
    /\ pc = "forScan"
    /\ n <= Len(scans)
    /\ uuidScan' = scans[n].id
    /\ scanName' = scans[n].name
    /\ printed' = Append(printed, [ text |-> "progress", n |-> n, nscans |-> nscans,
                                    name |-> scans[n].name ])
    /\ pc' = "downloadScan"
    /\ UNCHANGED << fsAtCall, dirsAtCall, logAtCall >>
    /\ UNCHANGED << eadVars, mainVars, fileVars, scansVars, envVars >>

\* downloadScan when the file is there: return
DownloadScanExists ==
    /\ pc = "downloadScan"
    /\ Exists(JpgPath(folder, scanName))
    /\ pc' = "afterDownloadScan"
    /\ UNCHANGED << eadVars, mainVars, fileVars, scansVars, scanVars, envVars, callVars >>

\* a faulty variant: the request and the write without the look at the disk
DownloadScanAlways ==
    /\ pc = "downloadScan"
    /\ \E status \in { StatusOK, StatusNotFound } :
        /\ netlog' = Append(netlog, ImageRequest(uuidScan))
        /\ fs' = IF status = StatusOK
                 THEN (JpgPath(folder, scanName) :> Image(uuidScan)) @@ fs
                 ELSE fs
    /\ pc' = "afterDownloadScan"
    /\ UNCHANGED << server, dirs >>
    /\ UNCHANGED << eadVars, mainVars, fileVars, scansVars, scanVars, callVars >>

\* downloadScan when the file is not there: the request, and the write when
\* the status is 200
DownloadScanFetch ==
    /\ pc = "downloadScan"
    /\ ~Exists(JpgPath(folder, scanName))
    /\ \E status \in { StatusOK, StatusNotFound } :
        /\ netlog' = Append(netlog, ImageRequest(uuidScan))
        /\ fs' = IF status = StatusOK
                 THEN (JpgPath(folder, scanName) :> Image(uuidScan)) @@ fs
                 ELSE fs
    /\ pc' = "afterDownloadScan"
    /\ UNCHANGED << server, dirs >>
    /\ UNCHANGED << eadVars, mainVars, fileVars, scansVars, scanVars, callVars >>

\* the rest of the turn: the concordance entry and the delay
RecordScan ==
    /\ pc = "afterDownloadScan"
    /\ concordance' = IF CONCORDANCEFILE
                      THEN DictSet(concordance, scanName, uuidScan)
                      ELSE concordance
    /\ netlog' = Append(netlog, Sleep)
    /\ n' = n + 1
    /\ pc' = "forScan"
    /\ UNCHANGED << path, collectionNumber, inventoryNumber, folder, nscans, scans >>
    /\ UNCHANGED << server, fs, dirs >>
    /\ UNCHANGED << eadVars, mainVars, scansVars, scanVars, callVars >>

\* behind the loop: the concordance file, when asked for
WriteConcordance ==
    /\ pc = "forScan"
    /\ n > Len(scans)
    /\ fs' = IF CONCORDANCEFILE
             THEN (ConcordancePath(folder) :> json_dump(concordance)) @@ fs
             ELSE fs
    /\ pc' = "return"
    /\ UNCHANGED << server, dirs, netlog >>
    /\ UNCHANGED << eadVars, mainVars, fileVars, scansVars, scanVars, callVars >>

\* downloadFile returns None to its caller: the end of the file command, the
\* next turn of the for loop of the ead command
Return ==
    /\ pc = "return"
    /\ pc' = IF mode = "file" THEN "exit" ELSE "forElement"
    /\ idx' = IF mode = "file" THEN idx ELSE idx + 1
    /\ UNCHANGED << mode, CONCORDANCEFILE >>
    /\ UNCHANGED << eadVars, fileVars, scansVars, scanVars, envVars, callVars >>

Next ==
    \/ MainFile \/ GetEAD \/ ParseEad \/ FlattenEadTree \/ SortElements
    \/ ForElement \/ ForElementEnd
    \/ DownloadFile \/ GetScanCount \/ GetScans \/ GetScansPage \/ GetScansReturn
    \/ NoScans \/ MakeDirs \/ ForScan \/ DownloadScanExists \/ DownloadScanFetch
    \/ RecordScan \/ WriteConcordance \/ Return

Spec == Init /\ [][Next]_vars

----------------------------------------------------------------------------
(* Claims on the whole runs *)

\* C3: downloadScan is a no-op when the destination file exists, whatever it
\* holds: no image request is issued and no file changes. The one file
\* downloadScan ever writes is the destination file, so a second call
\* after a first that wrote it changes nothing.
C3_ExistingFileIsKept ==
    /\ [][ (pc = "downloadScan" /\ Exists(JpgPath(folder, scanName)))
             => /\ fs' = fs
                /\ dirs' = dirs
                /\ netlog' = netlog
                /\ pc' = "afterDownloadScan" ]_vars
    /\ [][ (pc = "downloadScan" /\ fs' # fs)
             => /\ netlog' = Append(netlog, ImageRequest(uuidScan))
                /\ fs' = (JpgPath(folder, scanName) :> Image(uuidScan)) @@ fs ]_vars

\* downloadScan has returned and the partial file of an earlier run is there
C3_Witness ==
    /\ pc = "afterDownloadScan"
    /\ Exists(JpgPath(folder, scanName))
    /\ fs[JpgPath(folder, scanName)] = Partial
    /\ netlog[Len(netlog)].type # "image"

\* C4: no two requests to the metadata service are issued without a delay
\* between them.
C4_DelayBetweenMetadataRequests ==
    \A j, k \in 1..Len(netlog) :
        (j < k /\ netlog[j].type = "metadata" /\ netlog[k].type = "metadata")
            => \E m \in (j + 1)..(k - 1) : netlog[m].type = "sleep"

UniqueNames(list) ==
    \A j, k \in 1..Len(list) : list[j].name = list[k].name => j = k

\* the file at fp has been left alone by the current downloadFile call
Untouched(fp) ==
    IF fp \in DOMAIN fsAtCall
    THEN fp \in DOMAIN fs /\ fs[fp] = fsAtCall[fp]
    ELSE fp \notin DOMAIN fs

\* C5: with concordance on and a non-empty list of scans of unique names, the
\* concordance written holds exactly name : id of every scan, in the order of
\* the list; with concordance off no concordance file is written.
C5_ConcordanceInRetrievalOrder ==
    (pc = "return" /\ scans # <<>>) =>
        /\ (CONCORDANCEFILE /\ UniqueNames(scans)) =>
             /\ Exists(ConcordancePath(folder))
             /\ LET tokens == fs[ConcordancePath(folder)]
                IN  /\ Len(tokens) = 4 * Len(scans) + 1
                    /\ tokens[1] = <<"{">>
                    /\ tokens[Len(tokens)] = <<"}">>
                    /\ \A k \in 1..Len(scans) :
                         /\ tokens[4 * k - 2] = scans[k].name
                         /\ tokens[4 * k - 1] = <<":">>
                         /\ tokens[4 * k] = scans[k].id
                         /\ k < Len(scans) => tokens[4 * k + 1] = <<",">>
        /\ ~CONCORDANCEFILE => Untouched(ConcordancePath(folder))

\* two scans of different names have been downloaded and their concordance
\* has replaced an old one
C5_Witness ==
    /\ pc = "return" /\ CONCORDANCEFILE
    /\ Len(scans) = 2 /\ UniqueNames(scans)
    /\ ConcordancePath(folder) \in DOMAIN fsAtCall
    /\ fs[ConcordancePath(folder)] # OldConcordance

\* C6: with a declared scan count of 0 getScans issues no page request and
\* returns the empty list; downloadFile reports that there are no scans and
\* returns without creating a folder or a file; the ead run goes on to the
\* next element.
C6_EmptyInventoryIsSkipped ==
    /\ [] ( (nscans = 0 /\ pc \in { "getScans", "getScansLoop", "ifNotScans", "return" })
              => /\ SubSeq(netlog, logAtCall + 1, Len(netlog))
                      = << MetadataRequest([ start |-> 0, limit |-> ProbeLimit ]) >>
                 /\ pc = "getScansLoop" => (gsScans = <<>> /\ i = 0)
                 /\ pc \in { "ifNotScans", "return" } => scans = <<>>
                 /\ pc = "return" => printed = << NoScansLine(inventoryNumber) >>
                 /\ fs = fsAtCall
                 /\ dirs = dirsAtCall )
    /\ [][ (nscans = 0 /\ pc = "return")
             => /\ pc' = IF mode = "ead" THEN "forElement" ELSE "exit"
                /\ mode = "ead" => idx' = idx + 1
                /\ fs' = fs /\ dirs' = dirs /\ netlog' = netlog ]_vars
    /\ [][ (nscans = 0 /\ pc = "forElement" /\ idx <= Len(calls))
             => pc' = "downloadFile" ]_vars

\* the first inventory of a finding aid declared no scans and downloadFile
\* has been called for the second
C6_Witness ==
    /\ mode = "ead" /\ pc = "downloadFile" /\ idx = 2
    /\ nscans = 0
    /\ printed = << NoScansLine(calls[1].inventoryNumber) >>
    /\ FirstFolder \notin dirs

\* what a caller of downloadFile gets to see of a call
Outcome == [ value |-> None, raised |-> FALSE, printed |-> printed ]

\* what it gets to see of a call for an inventory of no scans
EmptyInventoryOutcome(inv) ==
    [ value |-> None, raised |-> FALSE, printed |-> << NoScansLine(inv) >> ]

\* C7: when no scans come back for a declared count that is not 0, what
\* downloadFile signals differs from what it signals for an empty inventory.
C7_SilentServiceIsTold ==
    (pc = "return" /\ nscans # 0 /\ scans = <<>>)
        => Outcome # EmptyInventoryOutcome(inventoryNumber)

====
